---- MODULE Spec2Model ----
(***************************************************************************)
(* A model of the nbox command line client (src/nbox_cli/cli.py and        *)
(* src/nbox_cli/client.py): one invocation of one command, from typer's    *)
(* reading of the command line to the process exit code.                   *)
(*                                                                         *)
(* Python strings are sequences of one-character strings, so that lower(), *)
(* strip(), split() and replace() are computed and not assumed.  JSON      *)
(* values are tagged records of one shape.  The remote store and the user  *)
(* are the environment: every HTTP reply and every prompt answer is a      *)
(* nondeterministic input of the step that waits for it.                   *)
(***************************************************************************)
EXTENDS Integers, Sequences, FiniteSets

(***************************************************************************)
(* Bounds of the model.                                                    *)
(***************************************************************************)
\* the longest structured list (elements) and dotenv file (lines) imported
MaxDrafts == 2

(***************************************************************************)
(* Python str methods.                                                     *)
(***************************************************************************)
\* str.lower() on one character
UpperCase ==
    <<"A", "B", "C", "D", "E", "F", "G", "H", "I", "J", "K", "L", "M",
      "N", "O", "P", "Q", "R", "S", "T", "U", "V", "W", "X", "Y", "Z">>
LowerCase ==
    <<"a", "b", "c", "d", "e", "f", "g", "h", "i", "j", "k", "l", "m",
      "n", "o", "p", "q", "r", "s", "t", "u", "v", "w", "x", "y", "z">>
LowerChar(c) ==
    IF \E i \in 1..Len(UpperCase) : UpperCase[i] = c
    THEN LowerCase[CHOOSE i \in 1..Len(UpperCase) : UpperCase[i] = c]
    ELSE c

\* s.lower()
Lower(s) == [i \in 1..Len(s) |-> LowerChar(s[i])]

\* s.replace(old, new) for one-character old and new
Replace(s, old, new) == [i \in 1..Len(s) |-> IF s[i] = old THEN new ELSE s[i]]

\* s.lstrip(c)
RECURSIVE LStrip(_, _)
LStrip(s, c) == IF s # <<>> /\ Head(s) = c THEN LStrip(Tail(s), c) ELSE s

\* s.rstrip(c)
RECURSIVE RStrip(_, _)
RStrip(s, c) ==
    IF s # <<>> /\ s[Len(s)] = c THEN RStrip(SubSeq(s, 1, Len(s) - 1), c) ELSE s

\* s.strip(): the only whitespace of the inputs is the blank
Strip(s) == RStrip(LStrip(s, " "), " ")

\* c in s, for a one-character c
Contains(s, c) == \E i \in 1..Len(s) : s[i] = c

\* pat in s, for a string pat
IsSubstring(pat, s) ==
    \E i \in 1..(Len(s) - Len(pat) + 1) : SubSeq(s, i, i + Len(pat) - 1) = pat

\* s.index(c): position of the first c (c occurs in s)
IndexOf(s, c) == CHOOSE i \in 1..Len(s) : s[i] = c /\ \A j \in 1..(i - 1) : s[j] # c

\* s.split(c): at least one part, empty parts kept
RECURSIVE Split(_, _)
Split(s, c) ==
    IF ~Contains(s, c) THEN <<s>>
    ELSE <<SubSeq(s, 1, IndexOf(s, c) - 1)>>
             \o Split(SubSeq(s, IndexOf(s, c) + 1, Len(s)), c)

\* c.join(parts)
RECURSIVE Join(_, _)
Join(parts, c) ==
    IF Len(parts) = 0 THEN <<>>
    ELSE IF Len(parts) = 1 THEN parts[1]
    ELSE parts[1] \o <<c>> \o Join(Tail(parts), c)

(***************************************************************************)
(* JSON values, and Python's str() and truth value of them.                *)
(***************************************************************************)
JStr(s) == [t |-> "str", s |-> s, b |-> FALSE]
JNull == [t |-> "null", s |-> <<>>, b |-> FALSE]
JNum == [t |-> "num", s |-> <<"7">>, b |-> FALSE]
JBool(b) == [t |-> "bool", s |-> <<>>, b |-> b]

\* str(v)
PyStr(v) ==
    CASE v.t = "str" -> v.s
      [] v.t = "num" -> v.s
      [] v.t = "null" -> <<"N", "o", "n", "e">>
      [] v.t = "bool" -> IF v.b THEN <<"T", "r", "u", "e">>
                                ELSE <<"F", "a", "l", "s", "e">>

\* bool(v), as in "if not v"
Truthy(v) ==
    CASE v.t = "str" -> v.s # <<>>
      [] v.t = "num" -> TRUE
      [] v.t = "null" -> FALSE
      [] v.t = "bool" -> v.b

(***************************************************************************)
(* The parsers.  A parser result is ok with the drafts, exit with the      *)
(* message printed before typer.Exit(code=1), or raise for an exception    *)
(* the parser does not catch.                                              *)
(***************************************************************************)
ParseOk(data) == [status |-> "ok", data |-> data, out |-> "none"]
ParseExit(out) == [status |-> "exit", data |-> <<>>, out |-> out]
ParseRaise(exc) == [status |-> "raise", data |-> <<>>, out |-> exc]

\* cli.py 301-318: the loop of _parse_nbox_json over the elements
RECURSIVE ParseNboxItems(_, _)
ParseNboxItems(items, data) ==
    IF items = <<>> THEN ParseOk(data)
    ELSE LET entry == Head(items) IN
         IF ~entry.isdict THEN ParseExit("unsupported")
         ELSE IF ~entry.has_key \/ ~entry.has_value THEN ParseExit("missing_fields")
         ELSE IF entry.key.t # "str" THEN ParseRaise("AttributeError")
         ELSE ParseNboxItems(Tail(items),
                  Append(data,
                         [key |-> Lower(LStrip(entry.key.s, "/")),
                          value |-> entry.value,
                          secure |-> IF entry.has_secure THEN entry.secure
                                     ELSE JBool(FALSE)]))

\* cli.py 294-320
ParseNboxJson(content) ==
    IF content.json = "invalid" THEN ParseRaise("JSONDecodeError")
    ELSE IF content.json # "list" THEN ParseExit("unsupported")
    ELSE ParseNboxItems(content.items, <<>>)

\* cli.py 256-259: one layer of matching quotes
Unquote(value) ==
    IF value # <<>> /\ Head(value) = "\"" /\ value[Len(value)] = "\""
    THEN SubSeq(value, 2, Len(value) - 1)
    ELSE IF value # <<>> /\ Head(value) = "'" /\ value[Len(value)] = "'"
    THEN SubSeq(value, 2, Len(value) - 1)
    ELSE value

\* cli.py 244-264: the candidates of _parse_env_file, one per accepted line
RECURSIVE ParseEnvLines(_)
ParseEnvLines(lines) ==
    IF lines = <<>> THEN <<>>
    ELSE LET line == Strip(Head(lines)) IN
         IF line = <<>> \/ Head(line) = "#" THEN ParseEnvLines(Tail(lines))
         ELSE IF ~Contains(line, "=") THEN ParseEnvLines(Tail(lines))
         ELSE LET eq == IndexOf(line, "=")
                  key == Replace(Lower(Strip(SubSeq(line, 1, eq - 1))), "_", "-")
                  value == Unquote(Strip(SubSeq(line, eq + 1, Len(line))))
              IN <<[env_key |-> key, value |-> value]>> \o ParseEnvLines(Tail(lines))

\* cli.py 273: the choices of the checkbox prompt
EnvChoices(entries) == {entries[i].env_key : i \in 1..Len(entries)}

\* cli.py 277-278: the prompt's answers, None (cancelled) or a selection
NoAnswer == [answered |-> FALSE, secure_keys |-> {}]
EnvAnswers(entries) ==
    {NoAnswer} \cup {[answered |-> TRUE, secure_keys |-> S] : S \in SUBSET EnvChoices(entries)}

\* cli.py 280-291: the drafts of _parse_env_file from candidates and answers
EnvDrafts(entries, nbox_path, answers) ==
    LET secure_keys == IF answers.answered THEN answers.secure_keys ELSE {}
    IN [i \in 1..Len(entries) |->
           [key |-> RStrip(nbox_path, "/") \o <<"/">> \o entries[i].env_key,
            value |-> JStr(entries[i].value),
            secure |-> JBool(entries[i].env_key \in secure_keys)]]

\* cli.py 240-291
ParseEnvFile(content, nbox_path, answers) ==
    LET entries == ParseEnvLines(content.lines)
    IN IF entries = <<>> THEN ParseOk(<<>>)
       ELSE ParseOk(EnvDrafts(entries, nbox_path, answers))

\* the dashes of every segment are replaced
LookupKeyEverySegment(draftKey) == Replace(Lower(draftKey), "-", "_")

\* cli.py 370-375: the key create_entries looks an existing entry up at
LookupKey(draftKey) ==
    LET key == Lower(draftKey)
        path_parts == Split(key, "/")
        key_name == Replace(path_parts[Len(path_parts)], "-", "_")
    IN Join([path_parts EXCEPT ![Len(path_parts)] = key_name], "/")

(***************************************************************************)
(* The environment: the remote store, its replies, the inputs.             *)
(***************************************************************************)
\* a stored entry, and the body of a reply that carries none
Entry(key, value, secure) == [key |-> key, value |-> value, secure |-> secure]
NoEntry == Entry(<<>>, <<>>, FALSE)

\* the stores of the model: empty; entries at the lookup keys of the drafts;
\* a secure entry for the decrypting commands
StorePool ==
    { <<>>,
      << Entry(<<"a", "/", "b", "_", "c">>, <<"o">>, FALSE),
         Entry(<<"p", "/", "a", "_", "b">>, <<"q">>, FALSE) >>,
      << Entry(<<"a", "/", "b", "-", "c">>, <<"r">>, TRUE),
         Entry(<<"a", "/", "b", "_", "c">>, <<"o">>, FALSE) >> }

StoreHas(st, v) == \E i \in 1..Len(st) : st[i].key = v
StoreGet(st, v) == st[CHOOSE i \in 1..Len(st) : st[i].key = v]

\* s.startswith(prefix)
StartsWith(s, prefix) == Len(prefix) <= Len(s) /\ SubSeq(s, 1, Len(prefix)) = prefix

\* an HTTP reply: status (0: no reply, the transport raised), whether the
\* body carries an entry, the entry, the list of a prefix query, the text
Reply(status, found, entry, list, text) ==
    [status |-> status, found |-> found, entry |-> entry, list |-> list, text |-> text]
ReplyEntry(e) == Reply(200, TRUE, e, <<>>, <<>>)
ReplyEmpty == Reply(200, FALSE, NoEntry, <<>>, <<>>)
ReplyList(l) == Reply(200, Len(l) > 0, NoEntry, l, <<>>)
ReplyFail(status, text) == Reply(status, FALSE, NoEntry, <<>>, text)

\* the replies that are failures whatever the store holds
Failures ==
    { ReplyFail(401, <<"T", "o", "k", "e", "n", " ", "e", "x", "p", "i", "r", "e", "d">>),
      ReplyFail(500, <<"e", "r", "r">>),
      ReplyFail(0, <<"r", "e", "f", "u", "s", "e", "d">>) }

\* GET /entry/key?v=: the entry; for a key the store does not hold, an empty
\* 200 body or a 404
GetKeyReplies(st, v) ==
    (IF StoreHas(st, v) THEN {ReplyEntry(StoreGet(st, v))}
     ELSE {ReplyEmpty, ReplyFail(404, <<"n", "o", "n", "e">>)}) \cup Failures

\* GET /entry/prefix?v=
GetPrefixReplies(st, v) ==
    {ReplyList(SelectSeq(st, LAMBDA e : StartsWith(e.key, v)))} \cup Failures

\* GET /entry/secret-value?v=
GetSecretReplies ==
    {ReplyEntry(Entry(<<>>, <<"s">>, TRUE)), ReplyEmpty} \cup Failures

\* POST /entry, DELETE /entry/key
WriteReplies == {ReplyEmpty} \cup Failures

\* POST /auth/token: a 200 body that is an object with a token (the entry's
\* value stands for it), an object without one, or null
LoginReplies ==
    {ReplyEntry(Entry(<<>>, <<"t", "o", "k">>, FALSE)), ReplyEntry(NoEntry), ReplyEmpty}
        \cup Failures

(***************************************************************************)
(* The URL pattern of the configuration (config.py 12-15).                 *)
(***************************************************************************)
Digit == {"0", "1", "2", "3", "4", "5", "6", "7", "8", "9"}
Letter == {UpperCase[i] : i \in 1..Len(UpperCase)} \cup {LowerCase[i] : i \in 1..Len(LowerCase)}
\* [-a-zA-Z0-9@:%._\+~#=]
HostChar == Letter \cup Digit \cup {"-", "@", ":", "%", ".", "_", "+", "~", "#", "="}
\* [a-zA-Z0-9()]
TldChar == Letter \cup Digit \cup {"(", ")"}
\* [-a-zA-Z0-9()@:%_\+.~#?&//=]
PathChar == Letter \cup Digit
                \cup {"-", "(", ")", "@", ":", "%", "_", "+", ".", "~", "#", "?", "&", "/", "="}
\* \w, for the word boundary \b
WordChar == Letter \cup Digit \cup {"_"}

AllIn(s, S) == \A i \in 1..Len(s) : s[i] \in S

\* the part after "http://" or "https://": (www\.)? host{1,256} "." tld{1,6}
\* \b path*; w is the length of the optional group, 0 when it is left out
MatchesAfterScheme(r) ==
    \E w \in {0, 4} :
        /\ w = 4 => Len(r) >= 4 /\ SubSeq(r, 1, 4) = <<"w", "w", "w", ".">>
        /\ \E d \in (w + 2)..Len(r) : \E e \in (d + 1)..Len(r) :
            /\ r[d] = "."
            /\ d - 1 - w <= 256
            /\ e - d <= 6
            /\ AllIn(SubSeq(r, w + 1, d - 1), HostChar)
            /\ AllIn(SubSeq(r, d + 1, e), TldChar)
            /\ AllIn(SubSeq(r, e + 1, Len(r)), PathChar)
            /\ (r[e] \in WordChar) # (e < Len(r) /\ r[e + 1] \in WordChar)

\* config.py 12-15: the pattern of nbox_url
MatchesUrl(s) ==
    LET http == <<"h", "t", "t", "p", ":", "/", "/">>
        https == <<"h", "t", "t", "p", "s", ":", "/", "/">>
    IN \/ /\ Len(s) >= Len(http)
          /\ SubSeq(s, 1, Len(http)) = http
          /\ MatchesAfterScheme(SubSeq(s, Len(http) + 1, Len(s)))
       \/ /\ Len(s) >= Len(https)
          /\ SubSeq(s, 1, Len(https)) = https
          /\ MatchesAfterScheme(SubSeq(s, Len(https) + 1, Len(s)))

\* the URL saved before the run, and the answers at the "NBOX URL" prompt
SavedUrl == <<"h", "t", "t", "p", ":", "/", "/", "a", ".", "i", "o">>
UrlPool ==
    { <<"h", "t", "t", "p", ":", "/", "/", "b", ".", "i", "o">>,
      <<"h", "t", "t", "p", "s", ":", "/", "/", "b", ".", "i", "o", "/", "p">>,
      <<"h", "t", "t", "p", ":", "/", "/", "b">>,
      <<"b", ".", "i", "o">> }

\* client.py 30-32, 103-105, ...: str() of the exception of a failed call
Digits(status) ==
    CASE status = 401 -> <<"4", "0", "1">>
      [] status = 404 -> <<"4", "0", "4">>
      [] status = 500 -> <<"5", "0", "0">>
      [] OTHER -> <<"0">>
ErrorMsg(reply) ==
    IF reply.status = 0 THEN reply.text
    ELSE <<"R", "e", "q", "u", "e", "s", "t", " ", "f", "a", "i", "l", "e", "d", " ",
           "w", "i", "t", "h", " ", "s", "t", "a", "t", "u", "s", " ">>
         \o Digits(reply.status) \o <<":", " ">> \o reply.text

\* client.py 16: the message of the constructor without a token
NoTokenMsg ==
    <<"N", "o", " ", "a", "u", "t", "h", "e", "n", "t", "i", "c", "a", "t",
      "i", "o", "n", " ", "t", "o", "k", "e", "n", " ", "f", "o", "u", "n",
      "d", ".", " ", "P", "l", "e", "a", "s", "e", " ", "r", "u", "n", " ",
      "'", "n", "b", "o", "x", " ", "l", "o", "g", "i", "n", "'", " ", "f",
      "i", "r", "s", "t", ".">>

\* cli.py 28: the test for the expired token
IsExpiredMsg(error_msg) ==
    /\ IsSubstring(<<"4", "0", "1">>, error_msg)
    /\ IsSubstring(<<"e", "x", "p", "i", "r", "e", "d">>, Lower(error_msg))

\* cli.py 28-33: what _get_client prints for an exception
ClientErrorPrint(error_msg) == IF IsExpiredMsg(error_msg) THEN "expired" ELSE "error"

(***************************************************************************)
(* The inputs of an invocation.                                            *)
(***************************************************************************)
\* keys and prefixes given on the command line
KeyPool ==
    { <<"a", "/", "b", "_", "c">>, <<"/", "a", "/", "b", "-", "c">>, <<"a", "/">>, <<"x">> }

\* an element of a structured list
Elem(isdict, has_key, key, has_value, value, has_secure, secure) ==
    [isdict |-> isdict, has_key |-> has_key, key |-> key, has_value |-> has_value,
     value |-> value, has_secure |-> has_secure, secure |-> secure]

ElemPool ==
    { Elem(TRUE, TRUE, JStr(<<"a", "/", "b", "-", "c">>), TRUE, JStr(<<"n">>), FALSE, JNull),
      Elem(TRUE, TRUE, JStr(<<"/", "A", "-", "B", "/", "c">>), TRUE, JStr(<<"m">>), TRUE, JBool(TRUE)),
      Elem(TRUE, TRUE, JStr(<<"x">>), TRUE, JNull, FALSE, JNull),
      Elem(TRUE, TRUE, JNum, TRUE, JStr(<<"n">>), FALSE, JNull),
      Elem(TRUE, FALSE, JNull, TRUE, JStr(<<"n">>), FALSE, JNull),
      Elem(FALSE, FALSE, JNull, FALSE, JNull, FALSE, JNull) }

\* lines of a dotenv file
LinePool ==
    { <<"A", "_", "B", "=", "n">>,
      <<" ", "c", " ", "=", " ", "'", "x", "=", "y", "'", " ">>,
      <<"#", "c", "=", "1">>,
      <<" ">>,
      <<"b">> }

\* the sequences over S of length at most n
SeqsUpTo(S, n) == UNION {[1..k -> S] : k \in 0..n}

\* a source file: what json.loads makes of its text, and its lines
Content(json, items, lines) == [json |-> json, items |-> items, lines |-> lines]

\* files holding a JSON list, another JSON value, or no JSON at all
JsonFiles ==
    {Content("list", items, << <<"[", "]">> >>) : items \in SeqsUpTo(ElemPool, MaxDrafts)}
        \cup {Content("other", <<>>, << <<"{", "}">> >>)}
EnvFiles == {Content("invalid", <<>>, lines) : lines \in SeqsUpTo(LinePool, MaxDrafts)}

\* the values of --nbox-path: absent, empty, plain, with slashes and capitals
PathPool == {JNull, JStr(<<>>), JStr(<<"p">>), JStr(<<"/", "P", "/">>)}

\* the arguments of a command function; a command reads its own only
Args(key, value, secure, decrypt, output_type, file_exists, content, nbox_path, input_type, no_changeset, delete_confirmation, username, password) ==
    [key |-> key, value |-> value, secure |-> secure, decrypt |-> decrypt,
     output_type |-> output_type, file_exists |-> file_exists, content |-> content,
     nbox_path |-> nbox_path, input_type |-> input_type,
     no_changeset |-> no_changeset, delete_confirmation |-> delete_confirmation,
     username |-> username, password |-> password]

NoContent == Content("invalid", <<>>, <<>>)
NoArgs == Args(<<>>, <<>>, FALSE, FALSE, "table", FALSE, NoContent, JNull, "nbox", FALSE, TRUE, <<>>, <<>>)

\* login: --username and --password, empty when not given
LoginArgs ==
    {[NoArgs EXCEPT !.username = u, !.password = w] :
        u \in {<<>>, <<"u">>}, w \in {<<>>, <<"w">>}}

\* get-entry and get-path: key or prefix, --decrypt, --output
GetArgs ==
    {[NoArgs EXCEPT !.key = k, !.decrypt = d, !.output_type = o] :
        k \in KeyPool, d \in BOOLEAN, o \in {"table", "json", "xml"}}

\* create-entry: key, value, --secure
CreateEntryArgs ==
    {[NoArgs EXCEPT !.key = k, !.value = <<"n">>, !.secure = s] :
        k \in KeyPool, s \in BOOLEAN}

\* create-entries: file, --nbox-path, --type, --no--changeset
CreateEntriesArgs ==
    {[NoArgs EXCEPT !.file_exists = TRUE, !.content = c, !.nbox_path = JNull,
                    !.input_type = "nbox", !.no_changeset = n] :
        c \in JsonFiles \cup {Content("invalid", <<>>, << <<"A", "=", "1">> >>)},
        n \in BOOLEAN}
    \cup
    {[NoArgs EXCEPT !.file_exists = TRUE, !.content = c, !.nbox_path = p,
                    !.input_type = "dotenv", !.no_changeset = n] :
        c \in EnvFiles \cup {Content("list", <<>>, << <<"[", "]">> >>)},
        p \in PathPool, n \in BOOLEAN}
    \cup
    {[NoArgs EXCEPT !.file_exists = e, !.content = Content("list", <<>>, << <<"[", "]">> >>),
                    !.input_type = t, !.no_changeset = n] :
        e \in BOOLEAN, t \in {"nbox", "dotenv", "json"}, n \in BOOLEAN}

\* remove-entry: key, the confirmation option
RemoveEntryArgs ==
    {[NoArgs EXCEPT !.key = k, !.delete_confirmation = d] : k \in KeyPool, d \in BOOLEAN}

(***************************************************************************)
(* What an invocation leaves behind: HTTP requests, printed messages,      *)
(* prompts and file reads, in the order they happen.                       *)
(***************************************************************************)
Event(kind, op, arg, v, body, status, text, n) ==
    [kind |-> kind, op |-> op, arg |-> arg, v |-> v, body |-> body,
     status |-> status, text |-> text, n |-> n]
\* a request of the client: the method's argument, the v parameter sent,
\* the JSON body sent, and the reply
Http(op, arg, v, body, reply) ==
    Event("http", op, arg, v, body, reply.status, reply.text, 0)
Echo(op, n) == Event("print", op, <<>>, <<>>, <<>>, 0, <<>>, n)
Prompt(op) == Event("prompt", op, <<>>, <<>>, <<>>, 0, <<>>, 0)
FileRead == Event("file", "read", <<>>, <<>>, <<>>, 0, <<>>, 0)

(***************************************************************************)
(* The pieces of the command functions that the steps below use.           *)
(***************************************************************************)
\* the prompt's answer is not looked at
DeclinedNever(answer) == FALSE

\* cli.py 225, 397, 446: "if not confirm"
Declined(answer) == ~answer

\* the option is not looked at
BuildsChangesetAlways(no_changeset) == TRUE

\* cli.py 366: "if not no_changeset"
BuildsChangeset(no_changeset) == ~no_changeset

\* the loop leaves out every second draft
NextDraftSkips(i) == i + 2

\* cli.py 369: the loop "for entry in data" goes to the next draft
NextDraft(i) == i + 1

\* a row of a table: key, old value (changeset tables only), value, secure
Row(key, old, new, secure) == [key |-> key, old |-> old, new |-> new, secure |-> secure]

\* cli.py 377: "get_entry_by_key(...) or {}", then .get("value", "")
OldValue(reply) == IF reply.found THEN reply.entry.value ELSE <<>>

\* cli.py 379-384: the changeset row of a draft
ChangesetRow(entry, reply) ==
    Row(Lower(entry.key), OldValue(reply), PyStr(entry.value), PyStr(entry.secure))

\* cli.py 386-392: the rows of the table without changeset
PlainRows(data) ==
    [i \in 1..Len(data) |->
        Row(Lower(data[i].key), <<>>, PyStr(data[i].value), PyStr(data[i].secure))]

\* only the first draft is sent
BatchBodyFirst(data) == IF data = <<>> THEN data ELSE <<Head(data)>>

\* cli.py 403, client.py 153: the JSON body of the batch call
BatchBody(data) == data

\* client.py 134-139: the JSON body of the single create
SingleBody(key, value, secure) ==
    << [key |-> LStrip(key, "/"), value |-> JStr(value), secure |-> JBool(secure)] >>

\* client.py 96, 109: the v parameter of the by-key requests
KeyParam(key) == LStrip(key, "/")

\* client.py 23-24: the v parameter of the token probe
ProbeParam == <<"l", "o", "g", "i", "n">>

\* the first secure entry from position i on, Len + 1 when there is none
\* (client.py 80-81: the decrypt loop skips the others)
NextSecure(result, i) ==
    IF \E j \in i..Len(result) : result[j].secure
    THEN CHOOSE j \in i..Len(result) :
            result[j].secure /\ \A k \in i..(j - 1) : ~result[k].secure
    ELSE Len(result) + 1

\* cli.py 165-184: what get_path prints for the entries, and its exit code
PathReport(entries, output_type) ==
    IF entries = <<>> THEN <<Echo("not_found", 0)>>
    ELSE IF output_type = "table" THEN <<Echo("found", Len(entries)), Echo("table", 0)>>
    ELSE <<Echo("json", 0)>>
PathExit(entries) == IF entries = <<>> THEN 1 ELSE 0

\* cli.py 81-91, 100-113: what get_entry prints for a result
EntryReport(output_type) ==
    IF output_type = "table" THEN <<Echo("parsed", 0), Echo("table", 0)>>
    ELSE <<Echo("json", 0)>>

(***************************************************************************)
(* The state of one invocation.                                            *)
(***************************************************************************)
VARIABLES
    pc,        \* where the command function stands
    cmd,       \* the command invoked
    args,      \* its arguments
    store,     \* the entries of the remote store
    token,     \* whether the saved configuration holds a token
    nbox_url,  \* the store URL of the saved configuration
    data,      \* create_entries: the drafts parsed
    parsed,    \* create_entries: whether a parser returned drafts
    idx,       \* position of the loop the function is in
    entry,     \* create_entry, remove_entry: the entry looked up
    result,    \* get_path: the list being decrypted
    rows,      \* the rows added to the table
    log,       \* requests, messages, prompts and file reads so far
    confirm,   \* the answer at "Do you want to proceed?"
    exitCode   \* the process exit code, -1 while running

vars == <<pc, cmd, args, store, token, nbox_url, data, parsed, idx, entry, result, rows, log,
          confirm, exitCode>>

Commands == {"config", "login", "get_entry", "get_path", "create_entry", "create_entries",
             "remove_entry"}

CmdArgs(c) ==
    CASE c = "config" -> {NoArgs}
      [] c = "login" -> LoginArgs
      [] c \in {"get_entry", "get_path"} -> GetArgs
      [] c = "create_entry" -> CreateEntryArgs
      [] c = "create_entries" -> CreateEntriesArgs
      [] c = "remove_entry" -> RemoveEntryArgs

NoLookup == [found |-> FALSE, e |-> NoEntry]

Init ==
    /\ pc = "idle"
    /\ cmd = "none"
    /\ args = NoArgs
    /\ store \in StorePool
    /\ token \in BOOLEAN
    /\ nbox_url = SavedUrl
    /\ data = <<>>
    /\ parsed = FALSE
    /\ idx = 0
    /\ entry = NoLookup
    /\ result = <<>>
    /\ rows = <<>>
    /\ log = <<>>
    /\ confirm = "none"
    /\ exitCode = -1

\* the function goes on to newpc after the events
Goto(newpc, events) ==
    /\ pc' = newpc
    /\ log' = log \o events
    /\ exitCode' = exitCode

\* the process ends with code after the events
Exit(events, code) ==
    /\ pc' = "done"
    /\ log' = log \o events
    /\ exitCode' = code

\* cli.py 128-131, 154-158, 195, 344, 416: the command function is entered
FirstStep(c) ==
    CASE c = "config" -> "config"
      [] c = "login" -> "login"
      [] c = "remove_entry" -> "rm_lookup"
      [] OTHER -> "client"

\* cli.py 123, 149, 326: an option annotated Literal[...] takes a listed value;
\* typer ends the run with a usage error before the function is entered
InLiteral(c, a) ==
    /\ c \in {"get_entry", "get_path"} => a.output_type \in {"table", "json"}
    /\ c = "create_entries" => a.input_type \in {"nbox", "dotenv"}

\* the command line is handed to typer: a value outside a Literal annotation
\* ends the run with exit code 2 and the function is not called; the tests of
\* output_type in the function bodies (cli.py 128-131, 154-158) come after
Invoke ==
    /\ pc = "idle"
    /\ \E c \in Commands : \E a \in CmdArgs(c) :
        /\ cmd' = c
        /\ args' = a
        /\ IF ~InLiteral(c, a)
           THEN Exit(<<>>, 2)
           ELSE IF c \in {"get_entry", "get_path"} /\ a.output_type \notin {"table", "json"}
                THEN Exit(<<Echo("format_error", 0)>>, 1)
                ELSE Goto(FirstStep(c), <<>>)
    /\ UNCHANGED <<store, nbox_url, token, data, parsed, idx, entry, result, rows, confirm>>

\* cli.py 37-52, config.py 11-28: NboxConfig(nbox_url=...) takes the token
\* from the saved file, so save() rewrites the file with the token kept
Configure ==
    /\ pc = "config"
    /\ \E url \in UrlPool :
        LET asked == <<Echo("setting_config", 0), Prompt("nbox_url")>> IN
        IF MatchesUrl(url)
        THEN /\ nbox_url' = url
             /\ Exit(asked \o <<Echo("config_saved", 0)>>, 0)
        ELSE /\ nbox_url' = nbox_url
             /\ Exit(asked \o <<Echo("invalid_config", 0), Echo("validation_error", 0)>>, 1)
    /\ UNCHANGED <<cmd, args, store, token, data, parsed, idx, entry, result, rows, confirm>>

\* cli.py 60-65: the banner, and the prompts for what was not given
LoginAsked(a) ==
    <<Echo("login_banner", 0)>>
        \o (IF a.username = <<>> THEN <<Prompt("username")>> ELSE <<>>)
        \o (IF a.password = <<>> THEN <<Prompt("password")>> ELSE <<>>)

\* cli.py 55-72, client.py 41-59: a 200 body without token saves None, which
\* erases the saved token; a null body raises in data.get and is a failure
Login ==
    /\ pc = "login"
    /\ \E reply \in LoginReplies :
        LET http == Http("POST token", <<>>, <<>>, <<>>, reply) IN
        IF reply.status = 200 /\ reply.found
        THEN /\ token' = (reply.entry.value # <<>>)
             /\ Exit(LoginAsked(args) \o <<http, Echo("login_ok", 0)>>, 0)
        ELSE /\ token' = token
             /\ Exit(LoginAsked(args) \o <<http, Echo("login_failed", 0)>>, 1)
    /\ UNCHANGED <<cmd, args, store, nbox_url, data, parsed, idx, entry, result, rows, confirm>>

\* where a command goes on after _get_client
AfterClient(c) ==
    CASE c = "get_entry" -> "ge_fetch"
      [] c = "get_path" -> "gp_fetch"
      [] c = "create_entry" -> "ce1_lookup"
      [] c = "create_entries" -> "ces_parse"

\* cli.py 21-34, client.py 10-32
GetClient ==
    /\ pc = "client"
    /\ IF ~token
       THEN Exit(<<Echo(ClientErrorPrint(NoTokenMsg), 0)>>, 1)
       ELSE \E reply \in GetPrefixReplies(store, ProbeParam) :
              LET http == Http("GET prefix", <<>>, ProbeParam, <<>>, reply) IN
              IF reply.status = 200
              THEN Goto(AfterClient(cmd), <<http>>)
              ELSE Exit(<<http, Echo(ClientErrorPrint(ErrorMsg(reply)), 0)>>, 1)
    /\ UNCHANGED <<cmd, args, store, nbox_url, token, data, parsed, idx, entry, result, rows, confirm>>

\* cli.py 75-113, 132-139: _get_secret or _get_key inside get_entry's try;
\* the typer.Exit raised for a missing entry is an Exception and is caught
GetEntryFetch ==
    /\ pc = "ge_fetch"
    /\ \E reply \in IF args.decrypt THEN GetSecretReplies
                    ELSE GetKeyReplies(store, KeyParam(args.key)) :
        LET http == IF args.decrypt
                    THEN Http("GET secret", args.key, args.key, <<>>, reply)
                    ELSE Http("GET key", args.key, KeyParam(args.key), <<>>, reply)
        IN IF reply.status # 200 THEN Exit(<<http, Echo("error", 0)>>, 1)
           ELSE IF ~reply.found
           THEN Exit(<<http, Echo("not_found", 0), Echo("error", 0)>>, 1)
           ELSE Exit(<<http>> \o EntryReport(args.output_type), 0)
    /\ UNCHANGED <<cmd, args, store, nbox_url, token, data, parsed, idx, entry, result, rows, confirm>>

\* cli.py 158-163, client.py 71-92: the prefix request of get_path
GetPathFetch ==
    /\ pc = "gp_fetch"
    /\ \E reply \in GetPrefixReplies(store, args.key) :
        LET http == Http("GET prefix", args.key, args.key, <<>>, reply)
            first == IF args.decrypt THEN NextSecure(reply.list, 1)
                     ELSE Len(reply.list) + 1
        IN IF reply.status # 200
           THEN /\ Exit(<<http, Echo("error", 0)>>, 1)
                /\ UNCHANGED <<result, idx>>
           ELSE /\ result' = reply.list
                /\ idx' = first
                /\ IF first > Len(reply.list)
                   THEN Exit(<<http>> \o PathReport(reply.list, args.output_type),
                             PathExit(reply.list))
                   ELSE Goto("gp_decrypt", <<http>>)
    /\ UNCHANGED <<cmd, args, store, nbox_url, token, data, parsed, entry, rows, confirm>>

\* client.py 79-88: one secure entry of the decrypt loop; a failed request
\* or an empty body is kept as the entry's decryption_error
GetPathDecrypt ==
    /\ pc = "gp_decrypt"
    /\ \E reply \in GetSecretReplies :
        LET http == Http("GET secret", result[idx].value, result[idx].value, <<>>, reply)
            res == IF reply.status = 200 /\ reply.found
                   THEN [result EXCEPT ![idx].value = reply.entry.value]
                   ELSE result
            next == NextSecure(res, idx + 1)
        IN /\ result' = res
           /\ idx' = next
           /\ IF next > Len(res)
              THEN Exit(<<http>> \o PathReport(res, args.output_type), PathExit(res))
              ELSE Goto("gp_decrypt", <<http>>)
    /\ UNCHANGED <<cmd, args, store, nbox_url, token, data, parsed, entry, rows, confirm>>

\* cli.py 195-222: the lookup of create_entry; its exception is dropped
CreateEntryLookup ==
    /\ pc = "ce1_lookup"
    /\ \E reply \in GetKeyReplies(store, KeyParam(args.key)) :
        LET http == Http("GET key", args.key, KeyParam(args.key), <<>>, reply)
            found == reply.status = 200 /\ reply.found
        IN /\ entry' = IF found THEN [found |-> TRUE, e |-> reply.entry] ELSE NoLookup
           /\ rows' = IF found
                      THEN <<Row(reply.entry.key, reply.entry.value, args.value,
                                 PyStr(JBool(args.secure)))>>
                      ELSE <<Row(args.key, <<>>, args.value, PyStr(JBool(args.secure)))>>
           /\ Goto("ce1_confirm",
                   <<http, Echo(IF found THEN "about_to_update" ELSE "about_to_create", 0),
                     Echo("table", 0)>>)
    /\ UNCHANGED <<cmd, args, store, nbox_url, token, data, parsed, idx, result, confirm>>

\* cli.py 224-227
CreateEntryConfirm ==
    /\ pc = "ce1_confirm"
    /\ \E answer \in BOOLEAN :
        /\ confirm' = IF answer THEN "yes" ELSE "no"
        /\ IF Declined(answer)
           THEN Exit(<<Prompt("confirm"), Echo("cancelled", 0)>>, 0)
           ELSE Goto("ce1_apply", <<Prompt("confirm")>>)
    /\ UNCHANGED <<cmd, args, store, nbox_url, token, data, parsed, idx, entry, result, rows>>

\* cli.py 229-237, client.py 132-148
CreateEntryApply ==
    /\ pc = "ce1_apply"
    /\ IF ~token
       THEN Exit(<<Echo("error", 0)>>, 1)
       ELSE \E reply \in WriteReplies :
              LET http == Http("POST entry", args.key, <<>>,
                               SingleBody(args.key, args.value, args.secure), reply)
              IN IF reply.status = 200
                 THEN Exit(<<http, Echo("created", 0)>>, 0)
                 ELSE Exit(<<http, Echo("error", 0)>>, 1)
    /\ UNCHANGED <<cmd, args, store, nbox_url, token, data, parsed, idx, entry, result, rows, confirm>>

\* cli.py 353-364: the parser the format selector picks, given the answer of
\* the checkbox prompt; no_path and bad_type are the two usage errors
Dispatch(a, answers) ==
    IF a.input_type = "nbox" THEN ParseNboxJson(a.content)
    ELSE IF a.input_type = "dotenv"
    THEN IF ~Truthy(a.nbox_path) THEN ParseExit("no_path")
         ELSE ParseEnvFile(a.content, a.nbox_path.s, answers)
    ELSE ParseExit("bad_type")

\* cli.py 269-277: the checkbox prompt is shown
Prompted(a) ==
    /\ a.input_type = "dotenv"
    /\ Truthy(a.nbox_path)
    /\ ParseEnvLines(a.content.lines) # <<>>

\* cli.py 346-394: the file is read and parsed; without changeset the table
\* is filled and printed, and so is the table of an empty changeset
CreateEntriesParse ==
    /\ pc = "ces_parse"
    /\ IF ~args.file_exists
       THEN /\ Exit(<<Echo("no_file", 0)>>, 1)
            /\ UNCHANGED <<data, parsed, idx, rows>>
       ELSE \E answers \in IF Prompted(args)
                           THEN EnvAnswers(ParseEnvLines(args.content.lines))
                           ELSE {NoAnswer} :
              LET r == Dispatch(args, answers)
                  io == <<FileRead>>
                          \o (IF Prompted(args) THEN <<Prompt("secure_keys")>> ELSE <<>>)
              IN IF r.status = "exit"
                 THEN /\ Exit(io \o <<Echo(r.out, 0)>>, 1)
                      /\ UNCHANGED <<data, parsed, idx, rows>>
                 ELSE IF r.status = "raise"
                 THEN /\ Exit(io \o <<Echo("traceback", 0)>>, 1)
                      /\ UNCHANGED <<data, parsed, idx, rows>>
                 ELSE /\ data' = r.data
                      /\ parsed' = TRUE
                      /\ idx' = 1
                      /\ IF BuildsChangeset(args.no_changeset)
                         THEN /\ rows' = <<>>
                              /\ IF r.data = <<>>
                                 THEN Goto("ces_confirm", io \o <<Echo("table", 0)>>)
                                 ELSE Goto("ces_lookup", io)
                         ELSE /\ rows' = PlainRows(r.data)
                              /\ Goto("ces_confirm", io \o <<Echo("table", 0)>>)
    /\ UNCHANGED <<cmd, args, store, nbox_url, token, entry, result, confirm>>

\* cli.py 369-384, 394: one turn of the changeset loop; the exception of a
\* failed lookup leaves create_entries uncaught (traceback, exit code 1);
\* after the last draft the table is printed
CreateEntriesLookup ==
    /\ pc = "ces_lookup"
    /\ \E reply \in GetKeyReplies(store, KeyParam(LookupKey(data[idx].key))) :
        LET existing_key_name == LookupKey(data[idx].key)
            http == Http("GET key", existing_key_name, KeyParam(existing_key_name),
                         <<>>, reply)
        IN IF reply.status # 200
           THEN /\ Exit(<<http, Echo("traceback", 0)>>, 1)
                /\ UNCHANGED <<rows, idx>>
           ELSE /\ rows' = Append(rows, ChangesetRow(data[idx], reply))
                /\ idx' = NextDraft(idx)
                /\ IF NextDraft(idx) > Len(data)
                   THEN Goto("ces_confirm", <<http, Echo("table", 0)>>)
                   ELSE Goto("ces_lookup", <<http>>)
    /\ UNCHANGED <<cmd, args, store, nbox_url, token, data, parsed, entry, result, confirm>>

\* cli.py 396-399
CreateEntriesConfirm ==
    /\ pc = "ces_confirm"
    /\ \E answer \in BOOLEAN :
        /\ confirm' = IF answer THEN "yes" ELSE "no"
        /\ IF Declined(answer)
           THEN Exit(<<Prompt("confirm"), Echo("cancelled", 0)>>, 0)
           ELSE Goto("ces_apply", <<Prompt("confirm")>>)
    /\ UNCHANGED <<cmd, args, store, nbox_url, token, data, parsed, idx, entry, result, rows>>

\* cli.py 401-406, client.py 150-160: the success message is printed, then
\* the batch is posted
CreateEntriesApply ==
    /\ pc = "ces_apply"
    /\ \E reply \in WriteReplies :
        LET http == Http("POST entry", <<>>, <<>>, BatchBody(data), reply)
            said == Echo("entries_created", Len(data))
        IN IF reply.status = 200
           THEN Exit(<<said, http>>, 0)
           ELSE Exit(<<said, http, Echo("error", 0)>>, 1)
    /\ UNCHANGED <<cmd, args, store, nbox_url, token, data, parsed, idx, entry, result, rows, confirm>>

\* cli.py 416-443: remove_entry builds its client without the token probe
RemoveEntryLookup ==
    /\ pc = "rm_lookup"
    /\ IF ~token
       THEN /\ Exit(<<Echo("error", 0)>>, 1)
            /\ UNCHANGED <<entry, rows>>
       ELSE \E reply \in GetKeyReplies(store, KeyParam(args.key)) :
              LET http == Http("GET key", args.key, KeyParam(args.key), <<>>, reply)
              IN IF reply.status # 200
                 THEN /\ Exit(<<http, Echo("error", 0)>>, 1)
                      /\ UNCHANGED <<entry, rows>>
                 ELSE IF ~reply.found
                 THEN /\ Exit(<<http, Echo("not_found", 0)>>, 1)
                      /\ UNCHANGED <<entry, rows>>
                 ELSE /\ entry' = [found |-> TRUE, e |-> reply.entry]
                      /\ IF args.delete_confirmation
                         THEN /\ rows' = <<Row(reply.entry.key, <<>>, reply.entry.value,
                                               PyStr(JBool(reply.entry.secure)))>>
                              /\ Goto("rm_confirm",
                                      <<http, Echo("about_to_remove", 0), Echo("table", 0)>>)
                         ELSE /\ rows' = rows
                              /\ Goto("rm_apply", <<http>>)
    /\ UNCHANGED <<cmd, args, store, nbox_url, token, data, parsed, idx, result, confirm>>

\* cli.py 445-448
RemoveEntryConfirm ==
    /\ pc = "rm_confirm"
    /\ \E answer \in BOOLEAN :
        /\ confirm' = IF answer THEN "yes" ELSE "no"
        /\ IF Declined(answer)
           THEN Exit(<<Prompt("confirm"), Echo("cancelled", 0)>>, 0)
           ELSE Goto("rm_apply", <<Prompt("confirm")>>)
    /\ UNCHANGED <<cmd, args, store, nbox_url, token, data, parsed, idx, entry, result, rows>>

\* cli.py 450-464, client.py 107-118
RemoveEntryApply ==
    /\ pc = "rm_apply"
    /\ \E reply \in WriteReplies :
        LET http == Http("DELETE key", args.key, KeyParam(args.key), <<>>, reply)
        IN IF reply.status = 200
           THEN Exit(<<http, Echo("removed", 0)>>, 0)
           ELSE Exit(<<http, Echo("error", 0)>>, 1)
    /\ UNCHANGED <<cmd, args, store, nbox_url, token, data, parsed, idx, entry, result, rows, confirm>>

Next ==
    \/ Invoke
    \/ Configure
    \/ Login
    \/ GetClient
    \/ GetEntryFetch
    \/ GetPathFetch
    \/ GetPathDecrypt
    \/ CreateEntryLookup
    \/ CreateEntryConfirm
    \/ CreateEntryApply
    \/ CreateEntriesParse
    \/ CreateEntriesLookup
    \/ CreateEntriesConfirm
    \/ CreateEntriesApply
    \/ RemoveEntryLookup
    \/ RemoveEntryConfirm
    \/ RemoveEntryApply

Spec == Init /\ [][Next]_vars

(***************************************************************************)
(* What the properties read off the log.                                   *)
(***************************************************************************)
IsHttp(e) == e.kind = "http"
IsLookup(e) == e.kind = "http" /\ e.op = "GET key"
IsWrite(e) == e.kind = "http" /\ e.op \in {"POST entry", "DELETE key"}
IsPost(e) == e.kind = "http" /\ e.op = "POST entry"
IsConfirmPrompt(e) == e.kind = "prompt" /\ e.op = "confirm"
IsExpiredReply(e) ==
    /\ e.kind = "http"
    /\ e.status = 401
    /\ IsSubstring(<<"e", "x", "p", "i", "r", "e", "d">>, e.text)

Lookups == SelectSeq(log, IsLookup)
Writes == SelectSeq(log, IsWrite)
Posts == SelectSeq(log, IsPost)
Said(op) == \E i \in 1..Len(log) : log[i].kind = "print" /\ log[i].op = op
Asked == \E i \in 1..Len(log) : IsConfirmPrompt(log[i])

\* the run is create-entries and a parser has returned its drafts
Imported == cmd = "create_entries" /\ parsed
WithChangeset == Imported /\ ~args.no_changeset

(***************************************************************************)
(* C1.  In create-entries, create-entry and remove-entry, a "no" at the    *)
(* confirmation prompt ends the run at once with exit code 0, and the run  *)
(* has made no POST /entry and no DELETE /entry/key.                       *)
(***************************************************************************)
C1_CancelWritesNothing ==
    (cmd \in {"create_entries", "create_entry", "remove_entry"} /\ confirm = "no")
        => /\ Writes = <<>>
           /\ pc = "done"
           /\ exitCode = 0

\* a batch of two drafts was shown with its changeset and declined
C1_Witness ==
    /\ cmd = "create_entries"
    /\ confirm = "no"
    /\ Len(data) = 2
    /\ Len(Lookups) = 2
    /\ pc = "done"

\* a single create was shown as an update of the stored entry and declined
C1_WitnessCreate ==
    /\ cmd = "create_entry"
    /\ confirm = "no"
    /\ entry.found
    /\ pc = "done"

\* a removal was shown and declined
C1_WitnessRemove ==
    /\ cmd = "remove_entry"
    /\ confirm = "no"
    /\ entry.found
    /\ pc = "done"

(***************************************************************************)
(* C2.  In create-entries, once the confirmation is accepted the run makes *)
(* one POST /entry and no second one, whether it succeeds or fails; its    *)
(* body holds all the drafts in input order (for a structured list: one    *)
(* per element, with the element's value).  No POST happens before.        *)
(***************************************************************************)
C2_OneBatchCall ==
    cmd = "create_entries" =>
        /\ Len(Posts) <= 1
        /\ Posts # <<>> => confirm = "yes"
        /\ (confirm = "yes" /\ pc = "done") =>
              /\ Len(Posts) = 1
              /\ Posts[1].body = data
              /\ args.input_type = "nbox" =>
                    /\ Len(Posts[1].body) = Len(args.content.items)
                    /\ \A i \in 1..Len(args.content.items) :
                          Posts[1].body[i].value = args.content.items[i].value
              /\ args.input_type = "dotenv" =>
                    /\ Len(Posts[1].body) = Len(ParseEnvLines(args.content.lines))
                    /\ \A i \in 1..Len(Posts[1].body) :
                          Posts[1].body[i].value.s
                              = ParseEnvLines(args.content.lines)[i].value

\* a batch of two different drafts was posted and the call failed
C2_Witness ==
    /\ cmd = "create_entries"
    /\ confirm = "yes"
    /\ pc = "done"
    /\ Len(data) = 2
    /\ data[1] # data[2]
    /\ Len(Posts) = 1
    /\ Posts[1].status = 500

\* an accepted empty batch is posted too
C2_WitnessEmpty ==
    /\ cmd = "create_entries"
    /\ confirm = "yes"
    /\ pc = "done"
    /\ data = <<>>
    /\ Len(Posts) = 1

(***************************************************************************)
(* C3.  As claimed: in create-entries with changeset the run makes exactly *)
(* N lookups and holds N rows for N drafts, whatever the lookups answer.   *)
(* This fails: a lookup that is not answered with 200 ends the run.        *)
(***************************************************************************)
C3_Original ==
    (WithChangeset /\ pc = "done")
        => /\ Len(Lookups) = Len(data)
           /\ Len(rows) = Len(data)

(***************************************************************************)
(* C3, amended.  In create-entries with changeset the lookups are made one *)
(* per draft in input order, all before the confirmation prompt, up to the *)
(* first one that is not answered with 200: every lookup answered with 200 *)
(* (entry or empty body) yields the row of its draft, in input order; a    *)
(* run that gets to the confirmation has made exactly N lookups and holds  *)
(* N rows; a run whose k-th lookup fails has made k lookups, holds k-1     *)
(* rows, and ends with exit code 1 without asking.                         *)
(***************************************************************************)
C3_LookupPerDraft ==
    WithChangeset =>
        LET L == Lookups IN
        /\ Len(L) <= Len(data)
        /\ \A j \in 1..Len(L) :
              /\ L[j].arg = LookupKey(data[j].key)
              /\ j < Len(L) => L[j].status = 200
        /\ \A i \in 1..Len(log) : \A j \in 1..Len(log) :
              (IsConfirmPrompt(log[i]) /\ IsLookup(log[j])) => j < i
        /\ Len(rows) = Cardinality({j \in 1..Len(L) : L[j].status = 200})
        /\ \A j \in 1..Len(rows) :
              /\ rows[j].key = Lower(data[j].key)
              /\ rows[j].new = PyStr(data[j].value)
        /\ (Asked \/ pc \in {"ces_confirm", "ces_apply"}) =>
              /\ Len(L) = Len(data)
              /\ Len(rows) = Len(data)
        /\ (pc = "done" /\ ~Asked) =>
              /\ Len(L) >= 1
              /\ L[Len(L)].status # 200
              /\ Len(rows) = Len(L) - 1
              /\ exitCode = 1

\* two drafts were looked up, the first found and the second not, and the
\* run stands at the confirmation
C3_Witness ==
    /\ WithChangeset
    /\ pc = "ces_confirm"
    /\ Len(data) = 2
    /\ Len(Lookups) = 2
    /\ rows[1].old # <<>>
    /\ rows[2].old = <<>>

(***************************************************************************)
(* C4.  In create-entries with the no-changeset option no get-by-key       *)
(* lookup is made, for either format and whether the user confirms or not. *)
(***************************************************************************)
C4_NoChangesetNoLookup ==
    (cmd = "create_entries" /\ args.no_changeset) => Lookups = <<>>

\* two dotenv drafts were posted without changeset
C4_Witness ==
    /\ Imported
    /\ args.no_changeset
    /\ args.input_type = "dotenv"
    /\ Len(data) = 2
    /\ confirm = "yes"
    /\ pc = "done"
    /\ Len(rows) = 2

\* two structured drafts were declined without changeset
C4_WitnessCancel ==
    /\ Imported
    /\ args.no_changeset
    /\ args.input_type = "nbox"
    /\ Len(data) = 2
    /\ confirm = "no"

(***************************************************************************)
(* C5.  As claimed: in create-entries with changeset the lookup of a draft *)
(* with key k is made at lowercase(k) with "-" replaced by "_" after its   *)
(* last "/" and nowhere else, and the batch call carries k itself.  The    *)
(* lookup part fails for a key that starts with "/": get_entry_by_key      *)
(* takes the leading "/" characters off before it makes the request.       *)
(***************************************************************************)
\* the position of the last "/" of s, 0 when there is none
LastSlash(s) ==
    IF Contains(s, "/")
    THEN CHOOSE i \in 1..Len(s) : s[i] = "/" /\ \A j \in (i + 1)..Len(s) : s[j] # "/"
    ELSE 0

\* the lookup key as the claim words it, character by character
ClaimedLookupKey(k) ==
    [i \in 1..Len(k) |->
        IF i > LastSlash(k) /\ LowerChar(k[i]) = "-" THEN "_" ELSE LowerChar(k[i])]

\* the batch call carries the drafts' own keys, in order
WritesDraftKeys ==
    \A p \in 1..Len(Posts) :
        /\ Len(Posts[p].body) = Len(data)
        /\ \A j \in 1..Len(data) : Posts[p].body[j].key = data[j].key

C5_Original ==
    WithChangeset =>
        /\ \A j \in 1..Len(Lookups) : Lookups[j].v = ClaimedLookupKey(data[j].key)
        /\ WritesDraftKeys

\* the number of "/" characters s starts with
LeadingSlashes(s) ==
    IF \A i \in 1..Len(s) : s[i] = "/"
    THEN Len(s)
    ELSE (CHOOSE i \in 1..Len(s) : s[i] # "/" /\ \A j \in 1..(i - 1) : s[j] = "/") - 1

(***************************************************************************)
(* C5, amended.  In create-entries with changeset the key handed to the    *)
(* client for a draft with key k is lowercase(k) with "-" replaced by "_"  *)
(* after its last "/" and nowhere else, the request is made at that key    *)
(* without its leading "/" characters, and the batch call carries k        *)
(* itself.                                                                 *)
(***************************************************************************)
C5_ReadKeyWriteKey ==
    WithChangeset =>
        /\ \A j \in 1..Len(Lookups) :
              LET c == ClaimedLookupKey(data[j].key) IN
              /\ Lookups[j].arg = c
              /\ Lookups[j].v = SubSeq(c, LeadingSlashes(c) + 1, Len(c))
        /\ WritesDraftKeys

\* the dotenv draft /P/a-b was read at p/a_b and written at /P/a-b
C5_Witness ==
    /\ WithChangeset
    /\ pc = "done"
    /\ Len(Posts) = 1
    /\ Len(Lookups) = 1
    /\ data[1].key = <<"/", "P", "/", "a", "-", "b">>
    /\ Lookups[1].arg = <<"/", "p", "/", "a", "_", "b">>
    /\ Lookups[1].v = <<"p", "/", "a", "_", "b">>
    /\ Posts[1].body[1].key = <<"/", "P", "/", "a", "-", "b">>

\* a/b-c was read at a/b_c and written at a/b-c, and a-b/c was read and
\* written at a-b/c
C5_WitnessSegments ==
    /\ WithChangeset
    /\ pc = "done"
    /\ Len(Posts) = 1
    /\ Len(Lookups) = 2
    /\ Lookups[1].v = <<"a", "/", "b", "_", "c">>
    /\ Posts[1].body[1].key = <<"a", "/", "b", "-", "c">>
    /\ Lookups[2].v = <<"a", "-", "b", "/", "c">>
    /\ Posts[1].body[2].key = <<"a", "-", "b", "/", "c">>

(***************************************************************************)
(* C6.  As claimed: the old value of a changeset row is empty exactly when *)
(* the store holds no entry at the lookup key, a found entry gives its     *)
(* value, and a lookup the store answers with not-found (an empty 200 body *)
(* or a 404) still yields its row and lets the run reach the confirmation. *)
(* This fails: a 404 raises in get_entry_by_key and create_entries does    *)
(* not catch it.                                                           *)
(***************************************************************************)
C6_Original ==
    WithChangeset =>
        /\ \A j \in 1..Len(rows) :
              LET v == KeyParam(LookupKey(data[j].key)) IN
              /\ rows[j].old = <<>> <=> ~StoreHas(store, v)
              /\ StoreHas(store, v) => rows[j].old = StoreGet(store, v).value
        /\ \A j \in 1..Len(Lookups) :
              (~StoreHas(store, Lookups[j].v) /\ Lookups[j].status \in {200, 404})
                  => /\ Len(rows) >= j
                     /\ rows[j].old = <<>>
                     /\ pc # "done" \/ Asked

(***************************************************************************)
(* C7.  As claimed: a run of create-entries with an unrecognized format    *)
(* selector, or with the dotenv format and no base path, makes no request  *)
(* and reads no file, and ends with exit code 1.  This fails twice: the    *)
(* unrecognized selector is turned down by typer with exit code 2, and     *)
(* with the dotenv format and no base path the command makes the token     *)
(* probe and reads the file before it looks at the base path.              *)
(***************************************************************************)
UsageError(a) ==
    \/ a.input_type \notin {"nbox", "dotenv"}
    \/ a.input_type = "dotenv" /\ ~Truthy(a.nbox_path)

C7_Original ==
    (cmd = "create_entries" /\ UsageError(args))
        => /\ \A i \in 1..Len(log) : log[i].kind \notin {"http", "file"}
           /\ pc = "done" => exitCode = 1

(***************************************************************************)
(* C8.  As claimed: in every command a failed remote call (a reply other   *)
(* than 200, or none) is followed by no other remote call, the run is      *)
(* over with exit code 1, and an error has been reported.  This fails:     *)
(* create_entry drops the exception of its lookup and goes on to the       *)
(* confirmation and the write, and the decrypt loop of get_path goes on    *)
(* after a failed secret request.                                          *)
(***************************************************************************)
C8_Original ==
    \A i \in 1..Len(log) :
        (IsHttp(log[i]) /\ log[i].status # 200)
            => /\ \A j \in (i + 1)..Len(log) : ~IsHttp(log[j])
               /\ pc = "done"
               /\ exitCode = 1
               /\ \E j \in (i + 1)..Len(log) :
                     /\ log[j].kind = "print"
                     /\ log[j].op \in {"error", "expired", "login_failed", "traceback"}

(***************************************************************************)
(* C9.  As claimed: whichever request of a run of get-entry, get-path,     *)
(* create-entry, create-entries or remove-entry is answered 401 with a     *)
(* body holding "expired", the run prints the re-login message and ends    *)
(* with exit code 1.  This fails: only the token probe of _get_client tests for *)
(* it; remove_entry makes no probe, and the other requests print the       *)
(* plain error.                                                            *)
(***************************************************************************)
C9_Original ==
    (cmd \in {"get_entry", "get_path", "create_entry", "create_entries", "remove_entry"}
        /\ pc = "done" /\ \E i \in 1..Len(log) : IsExpiredReply(log[i]))
        => /\ Said("expired")
           /\ exitCode = 1

(***************************************************************************)
(* C10.  As claimed: every draft a parser returns has a key and a value    *)
(* that are not null and secure = false where the input gave none; a       *)
(* structured element with a null value or a key that is no string is      *)
(* rejected with the validation message.  This fails: a null value is      *)
(* taken over into the draft, and a key that is no string raises an        *)
(* AttributeError.                                                         *)
(***************************************************************************)
\* a structured list asks for the validation message
Invalid(items) ==
    \E i \in 1..Len(items) :
        /\ items[i].isdict
        /\ \/ ~items[i].has_key
           \/ ~items[i].has_value
           \/ items[i].key.t # "str"
           \/ items[i].value.t = "null"

C10_Original ==
    /\ Imported =>
          \A i \in 1..Len(data) :
              /\ data[i].value.t # "null"
              /\ (args.input_type = "nbox" /\ ~args.content.items[i].has_secure)
                    => data[i].secure = JBool(FALSE)
              /\ (args.input_type = "dotenv"
                      /\ ~\E j \in 1..Len(log) :
                            log[j].kind = "prompt" /\ log[j].op = "secure_keys")
                    => data[i].secure = JBool(FALSE)
    /\ (cmd = "create_entries" /\ args.input_type = "nbox" /\ args.file_exists
            /\ args.content.json = "list" /\ Invalid(args.content.items)
            /\ \A i \in 1..Len(args.content.items) : args.content.items[i].isdict
            /\ pc \notin {"idle", "client", "ces_parse"}
            /\ \E j \in 1..Len(log) : log[j].kind = "file")
          => /\ ~parsed
             /\ Said("missing_fields")
             /\ exitCode = 1

(***************************************************************************)
(* C11.  As claimed: in create-entries the success report, with the number *)
(* of drafts submitted, is printed only after the batch call has returned  *)
(* with success; a run whose batch call fails prints no success report     *)
(* and ends with the error message and exit code 1.  This fails: the       *)
(* report is printed before the batch call is made.                        *)
(***************************************************************************)
C11_Original ==
    cmd = "create_entries" =>
        /\ \A i \in 1..Len(log) :
              (log[i].kind = "print" /\ log[i].op = "entries_created")
                  => /\ log[i].n = Len(data)
                     /\ \E j \in 1..(i - 1) : IsPost(log[j]) /\ log[j].status = 200
        /\ (pc = "done" /\ \E j \in 1..Len(log) : IsPost(log[j]) /\ log[j].status # 200)
              => /\ ~Said("entries_created")
                 /\ Said("error")
                 /\ exitCode = 1

(***************************************************************************)
(* C12.  As claimed: in create-entries, for both formats and both          *)
(* changeset modes, the key of each row of the confirmation table is the   *)
(* key the batch call submits for that draft, in lowercase.  This fails:   *)
(* the table shows the lowercased key, the batch call carries the draft    *)
(* key, and the dotenv parser does not lowercase the base path.            *)
(***************************************************************************)
C12_Original ==
    Imported =>
        \A p \in 1..Len(Posts) :
            /\ Len(rows) = Len(Posts[p].body)
            /\ \A j \in 1..Len(rows) :
                  /\ rows[j].key = Posts[p].body[j].key
                  /\ Posts[p].body[j].key = Lower(Posts[p].body[j].key)

====
